---- MODULE Spec2Model ----
(***************************************************************************)
(* AuthProvider of src/src/contexts/AuthContext.tsx as a state machine.    *)
(*                                                                         *)
(* The provider is single threaded: every handler runs to its next await   *)
(* without interruption, so one action is one synchronous segment of a     *)
(* handler (call .. first await, or continuation .. return).  The states   *)
(* between actions are the states a consumer of the context can observe.   *)
(* The identity backend and the profile store are the environment: what    *)
(* they answer, and when, is chosen nondeterministically.                  *)
(***************************************************************************)
EXTENDS Integers, Sequences, FiniteSets, TLC

VARIABLES
    user,                   \* useState<User | null>            (line 35)
    profile,                \* useState<Profile | null>         (line 36)
    session,                \* useState<Session | null>         (line 37)
    loading,                \* useState(true)                   (line 38)
    lifecycle,              \* "rendered" | "attached" | "detached"
    initializationTimeout,  \* "unset" | "armed" | "fired" | "cleared"
    initPc,                 \* position of initializeAuth
    fetches,                \* every profile fetch issued, oldest first
    signInPc,               \* position of signIn
    signUpPc,               \* position of signUp
    signOutPc,              \* position of signOut
    sessionEventSinceSignOut, \* signOut is awaiting and a session event was handled since its call
    timeoutLeft             \* ms until the armed startup timer fires (0 when not armed)

vars == <<user, profile, session, loading, lifecycle, initializationTimeout,
          initPc, fetches, signInPc, signUpPc, signOutPc,
          sessionEventSinceSignOut, timeoutLeft>>

authState == <<user, profile, session, loading>>

----------------------------------------------------------------------------
(* Values *)

NULL == "null"

Users == {"U1", "U2"}

Roles == {"admin", "student"}

\* A profile fetch may be started at most MaxFetches times in one run.
MaxFetches == 2

\* setTimeout(..., 5000) of initializeAuth.
StartupTimeoutMs == 5000

\* Profile | null.  The row is selected with .eq('id', userId).single().
NullProfile == [id |-> NULL, role |-> NULL]

ProfileRow(u, r) == [id |-> u, role |-> r]

\* Session | null.  A session normally embeds its user; the code reads it
\* with newSession?.user, so a session without a user is an input as well.
NullSession == [valid |-> FALSE, user |-> NULL]

SessionOf(u) == [valid |-> TRUE, user |-> u]

Sessions == {NullSession} \cup {SessionOf(u) : u \in Users \cup {NULL}}

\* newSession?.user ?? null
SessionUser(s) == IF s.valid THEN s.user ELSE NULL

\* What the profile store can answer to one fetch: a row, error PGRST116,
\* another error result, a thrown AbortError, another thrown exception.
FetchOutcomes == {"data", "notfound", "error", "abort", "throw"}

\* What getSession() can answer: a session or null, an error result, a throw.
GetSessionOutcomes ==
    {[kind |-> "session", session |-> s] : s \in Sessions}
        \cup {[kind |-> k, session |-> NullSession] : k \in {"error", "throw"}}

\* let mounted = true ... mounted = false in the cleanup.
mounted == lifecycle = "attached"

\* profileFetchController: the controller of the fetch issued last (0: null).
profileFetchController == Len(fetches)

----------------------------------------------------------------------------
(* Helpers of the effect closure *)

\* if (profileFetchController) profileFetchController.abort()
AbortCurrent(fs) ==
    [i \in DOMAIN fs |->
        IF i = Len(fs) THEN [fs[i] EXCEPT !.aborted = TRUE] ELSE fs[i]]

\* Mutant: fetchUserProfile issues the query without cancelling the one
\* before it.
StartFetch_NoAbort(fs, uid, by) ==
    Append(fs, [uid |-> uid, by |-> by, aborted |-> FALSE, status |-> "pending"])

\* fetchUserProfile up to its await: abort the previous controller, make a
\* new one, issue the query with the new controller's signal.
StartFetch(fs, uid, by) ==
    Append(AbortCurrent(fs),
           [uid |-> uid, by |-> by, aborted |-> FALSE, status |-> "pending"])

\* Mutant: resetAuthState clears the three values and leaves loading to its
\* caller.
ResetAuthState_KeepsLoading ==
    /\ user' = NULL
    /\ profile' = NullProfile
    /\ session' = NullSession
    /\ UNCHANGED loading

\* resetAuthState (the caller has checked mounted).
ResetAuthState ==
    /\ user' = NULL
    /\ profile' = NullProfile
    /\ session' = NullSession
    /\ loading' = FALSE

\* Mutant: the timer is left running.
ClearedTimeout_StillArmed(t) == t

\* clearTimeout(initializationTimeout); initializationTimeout = null
ClearedTimeout(t) == IF t = "armed" THEN "cleared" ELSE t

----------------------------------------------------------------------------
Init ==
    /\ user = NULL
    /\ profile = NullProfile
    /\ session = NullSession
    /\ loading = TRUE
    /\ lifecycle = "rendered"
    /\ initializationTimeout = "unset"
    /\ initPc = "idle"
    /\ fetches = << >>
    /\ signInPc = "idle"
    /\ signUpPc = "idle"
    /\ signOutPc = "idle"
    /\ sessionEventSinceSignOut = FALSE
    /\ timeoutLeft = 0

\* The effect body: subscribe, then initializeAuth up to await getSession().
Attach ==
    /\ lifecycle = "rendered"
    /\ lifecycle' = "attached"
    /\ initializationTimeout' = "armed"
    /\ timeoutLeft' = StartupTimeoutMs
    /\ initPc' = "getSession"
    /\ UNCHANGED <<user, profile, session, loading, fetches, signInPc,
                   signUpPc, signOutPc, sessionEventSinceSignOut>>

\* Time passes while the startup timer is pending; the timer fires on time.
Tick ==
    /\ initializationTimeout = "armed"
    /\ timeoutLeft > 0
    /\ timeoutLeft' = IF timeoutLeft > 1000 THEN timeoutLeft - 1000 ELSE 0
    /\ UNCHANGED <<user, profile, session, loading, lifecycle,
                   initializationTimeout, initPc, fetches, signInPc, signUpPc,
                   signOutPc, sessionEventSinceSignOut>>

\* Mutant: the timer's callback logs and forgets setLoading(false).
InitializationTimeoutFires_KeepsLoading ==
    /\ initializationTimeout = "armed"
    /\ timeoutLeft = 0
    /\ initializationTimeout' = "fired"
    /\ UNCHANGED <<user, profile, session, loading, lifecycle, initPc, fetches,
                   signInPc, signUpPc, signOutPc, sessionEventSinceSignOut,
                   timeoutLeft>>

\* The startup timer's callback.
InitializationTimeoutFires ==
    /\ initializationTimeout = "armed"
    /\ timeoutLeft = 0
    /\ initializationTimeout' = "fired"
    /\ loading' = IF mounted THEN FALSE ELSE loading
    /\ UNCHANGED <<user, profile, session, lifecycle, initPc, fetches,
                   signInPc, signUpPc, signOutPc, sessionEventSinceSignOut,
                   timeoutLeft>>

\* initializeAuth from the settlement of getSession() on.
\* res.kind: "error" (error result), "throw", or "session" with res.session.
InitializeAuthResolve(res) ==
    /\ initPc = "getSession"
    /\ initPc' = "done"
    /\ IF ~mounted
       THEN UNCHANGED <<user, profile, session, loading, fetches,
                        initializationTimeout, timeoutLeft,
                        sessionEventSinceSignOut>>
       ELSE /\ initializationTimeout' = ClearedTimeout(initializationTimeout)
            /\ timeoutLeft' = 0
            /\ sessionEventSinceSignOut' = (signOutPc = "await")
            /\ IF res.kind = "session" /\ SessionUser(res.session) # NULL
               THEN /\ Len(fetches) < MaxFetches
                    /\ session' = res.session
                    /\ user' = SessionUser(res.session)
                    /\ fetches' = StartFetch(fetches, SessionUser(res.session), "init")
                    /\ UNCHANGED <<profile, loading>>
               ELSE /\ ResetAuthState
                    /\ UNCHANGED fetches
    /\ UNCHANGED <<lifecycle, signInPc, signUpPc, signOutPc>>

\* Mutant: the branch for an event without a user clears the profile and
\* loading only, and keeps the session it has just stored.
HandleAuthStateChange_KeepsSession(newSession) ==
    /\ mounted
    /\ sessionEventSinceSignOut' = (signOutPc = "await")
    /\ session' = newSession
    /\ user' = SessionUser(newSession)
    /\ IF SessionUser(newSession) # NULL
       THEN /\ Len(fetches) < MaxFetches
            /\ fetches' = StartFetch(AbortCurrent(fetches),
                                    SessionUser(newSession), "push")
            /\ UNCHANGED <<profile, loading>>
       ELSE /\ fetches' = AbortCurrent(fetches)
            /\ profile' = NullProfile
            /\ loading' = FALSE
    /\ UNCHANGED <<lifecycle, initializationTimeout, initPc, signInPc,
                   signUpPc, signOutPc, timeoutLeft>>

\* handleAuthStateChange, with fetchUserProfile up to its await.
HandleAuthStateChange(newSession) ==
    /\ mounted
    /\ sessionEventSinceSignOut' = (signOutPc = "await")
    /\ IF SessionUser(newSession) # NULL
       THEN /\ Len(fetches) < MaxFetches
            /\ session' = newSession
            /\ user' = SessionUser(newSession)
            /\ fetches' = StartFetch(AbortCurrent(fetches),
                                    SessionUser(newSession), "push")
            /\ UNCHANGED <<profile, loading>>
       ELSE /\ fetches' = AbortCurrent(fetches)
            /\ ResetAuthState
    /\ UNCHANGED <<lifecycle, initializationTimeout, initPc, signInPc,
                   signUpPc, signOutPc, timeoutLeft>>

\* The guard after the await of fetchUserProfile:
\*   if (!mounted || profileFetchController.signal.aborted) return;
\* profileFetchController is the closure variable: the controller issued last.
SettleGuardReturns(fs, i) ==
    \/ ~mounted
    \/ fs[profileFetchController].aborted

\* Mutant: fetchUserProfile without its finally block.
FetchUserProfileSettle_NoFinally(i, out, role) ==
    /\ i \in DOMAIN fetches
    /\ fetches[i].status = "pending"
    /\ out = "abort" => fetches[i].aborted
    /\ fetches' = [fetches EXCEPT ![i].status =
                       IF out = "data" THEN "data" ELSE "failed"]
    /\ profile' =
          IF out \in {"data", "notfound", "error"}
          THEN IF SettleGuardReturns(fetches, i) THEN profile
               ELSE IF out = "data" THEN ProfileRow(fetches[i].uid, role)
               ELSE NullProfile
          ELSE IF out = "throw" /\ mounted THEN NullProfile
          ELSE profile
    /\ UNCHANGED <<user, session, loading, lifecycle, initializationTimeout,
                   initPc, signInPc, signUpPc, signOutPc,
                   sessionEventSinceSignOut, timeoutLeft>>

\* Mutant: an error result only logs; setProfile(null) is left out.
FetchUserProfileSettle_KeepsProfileOnError(i, out, role) ==
    /\ i \in DOMAIN fetches
    /\ fetches[i].status = "pending"
    /\ out = "abort" => fetches[i].aborted
    /\ fetches' = [fetches EXCEPT ![i].status =
                       IF out = "data" THEN "data" ELSE "failed"]
    /\ profile' =
          IF out = "data" /\ ~SettleGuardReturns(fetches, i)
          THEN ProfileRow(fetches[i].uid, role)
          ELSE IF out = "throw" /\ mounted THEN NullProfile
          ELSE profile
    /\ loading' = IF mounted THEN FALSE ELSE loading
    /\ UNCHANGED <<user, session, lifecycle, initializationTimeout, initPc,
                   signInPc, signUpPc, signOutPc, sessionEventSinceSignOut,
                   timeoutLeft>>

\* fetchUserProfile from the settlement of fetch i on (try, catch, finally).
FetchUserProfileSettle(i, out, role) ==
    /\ i \in DOMAIN fetches
    /\ fetches[i].status = "pending"
    /\ out = "abort" => fetches[i].aborted
    /\ fetches' = [fetches EXCEPT ![i].status =
                       IF out = "data" THEN "data" ELSE "failed"]
    /\ profile' =
          IF out \in {"data", "notfound", "error"}
          THEN IF SettleGuardReturns(fetches, i) THEN profile
               ELSE IF out = "data" THEN ProfileRow(fetches[i].uid, role)
               ELSE NullProfile
          ELSE IF out = "throw" /\ mounted THEN NullProfile
          ELSE profile
    /\ loading' = IF mounted THEN FALSE ELSE loading
    /\ UNCHANGED <<user, session, lifecycle, initializationTimeout, initPc,
                   signInPc, signUpPc, signOutPc, sessionEventSinceSignOut, timeoutLeft>>

\* Mutant: the cleanup forgets clearTimeout.
Detach_KeepsTimer ==
    /\ lifecycle = "attached"
    /\ lifecycle' = "detached"
    /\ fetches' = AbortCurrent(fetches)
    /\ UNCHANGED <<user, profile, session, loading, initPc, signInPc,
                   signUpPc, signOutPc, sessionEventSinceSignOut,
                   initializationTimeout, timeoutLeft>>

\* The effect's cleanup.
Detach ==
    /\ lifecycle = "attached"
    /\ lifecycle' = "detached"
    /\ initializationTimeout' = ClearedTimeout(initializationTimeout)
    /\ timeoutLeft' = 0
    /\ fetches' = AbortCurrent(fetches)
    /\ UNCHANGED <<user, profile, session, loading, initPc, signInPc,
                   signUpPc, signOutPc, sessionEventSinceSignOut>>

----------------------------------------------------------------------------
(* The actions of the context value.  A state update of a component that   *)
(* has unmounted is dropped by React, so a continuation that runs after    *)
(* Detach changes no state.                                                *)

\* signIn up to await signInWithPassword().
SignInCall ==
    /\ mounted
    /\ signInPc = "idle"
    /\ signInPc' = "await"
    /\ loading' = TRUE
    /\ UNCHANGED <<user, profile, session, lifecycle, initializationTimeout,
                   initPc, fetches, signUpPc, signOutPc,
                   sessionEventSinceSignOut, timeoutLeft>>

\* What signIn returns to its caller: { error } with error null or not.
SignInResult(out) == IF out = "ok" THEN "null" ELSE "error"

\* Mutant: the failure paths return without setLoading(false).
SignInReturn_KeepsLoading(out) ==
    /\ signInPc = "await"
    /\ signInPc' = "idle"
    /\ UNCHANGED <<user, profile, session, loading, lifecycle,
                   initializationTimeout, initPc, fetches, signUpPc, signOutPc,
                   sessionEventSinceSignOut, timeoutLeft>>

\* signIn from the settlement of signInWithPassword() on.
\* out: "ok", "error" (error result), "nouser" (no user or session), "throw".
SignInReturn(out) ==
    /\ signInPc = "await"
    /\ signInPc' = "idle"
    /\ loading' = IF mounted /\ out # "ok" THEN FALSE ELSE loading
    /\ UNCHANGED <<user, profile, session, lifecycle, initializationTimeout,
                   initPc, fetches, signUpPc, signOutPc,
                   sessionEventSinceSignOut, timeoutLeft>>

\* signUp up to await auth.signUp().
SignUpCall ==
    /\ mounted
    /\ signUpPc = "idle"
    /\ signUpPc' = "awaitSignUp"
    /\ loading' = TRUE
    /\ UNCHANGED <<user, profile, session, lifecycle, initializationTimeout,
                   initPc, fetches, signInPc, signOutPc,
                   sessionEventSinceSignOut, timeoutLeft>>

\* What signUp returns when auth.signUp() has settled without a new user.
SignUpResult(out) == IF out \in {"error", "throw"} THEN "error" ELSE "null"

\* What signUp returns when the profile insert has settled.
SignUpInsertResult(out) == IF out = "ok" THEN "null" ELSE "error"

\* signUp from the settlement of auth.signUp() on.
\* out: "user" (a user was created), "nouser", "error", "throw".
SignUpResolve(out) ==
    /\ signUpPc = "awaitSignUp"
    /\ IF out = "user"
       THEN /\ signUpPc' = "awaitInsert"
            /\ UNCHANGED loading
       ELSE /\ signUpPc' = "idle"
            /\ loading' = IF mounted THEN FALSE ELSE loading
    /\ UNCHANGED <<user, profile, session, lifecycle, initializationTimeout,
                   initPc, fetches, signInPc, signOutPc,
                   sessionEventSinceSignOut, timeoutLeft>>

\* signUp from the settlement of the profile insert on.
SignUpInsertResolve(out) ==
    /\ signUpPc = "awaitInsert"
    /\ out \in {"ok", "error", "throw"}
    /\ signUpPc' = "idle"
    /\ loading' = IF mounted THEN FALSE ELSE loading
    /\ UNCHANGED <<user, profile, session, lifecycle, initializationTimeout,
                   initPc, fetches, signInPc, signOutPc,
                   sessionEventSinceSignOut, timeoutLeft>>

\* signOut up to await auth.signOut().
SignOutCall ==
    /\ mounted
    /\ signOutPc = "idle"
    /\ signOutPc' = "await"
    /\ loading' = TRUE
    /\ user' = NULL
    /\ profile' = NullProfile
    /\ session' = NullSession
    /\ sessionEventSinceSignOut' = FALSE
    /\ UNCHANGED <<lifecycle, initializationTimeout, initPc, fetches,
                   signInPc, signUpPc, timeoutLeft>>

\* signOut from the settlement of auth.signOut() on.
\* out: "ok", "error", "throw"; the finally block runs in each case.
SignOutReturn(out) ==
    /\ signOutPc = "await"
    /\ out \in {"ok", "error", "throw"}
    /\ signOutPc' = "idle"
    /\ sessionEventSinceSignOut' = FALSE
    /\ loading' = IF mounted THEN FALSE ELSE loading
    /\ UNCHANGED <<user, profile, session, lifecycle, initializationTimeout,
                   initPc, fetches, signInPc, signUpPc, timeoutLeft>>

----------------------------------------------------------------------------
InitResolve == \E res \in GetSessionOutcomes : InitializeAuthResolve(res)

PushEvent == \E s \in Sessions : HandleAuthStateChange(s)

FetchSettles ==
    \E i \in 1..MaxFetches, out \in FetchOutcomes, r \in Roles :
        FetchUserProfileSettle(i, out, r)

SignInSettles == \E out \in {"ok", "error", "nouser", "throw"} : SignInReturn(out)

SignUpSettles == \E out \in {"user", "nouser", "error", "throw"} : SignUpResolve(out)

SignUpInsertSettles == \E out \in {"ok", "error", "throw"} : SignUpInsertResolve(out)

SignOutSettles == \E out \in {"ok", "error", "throw"} : SignOutReturn(out)

Next ==
    \/ Attach
    \/ Tick
    \/ InitializationTimeoutFires
    \/ InitResolve
    \/ PushEvent
    \/ FetchSettles
    \/ Detach
    \/ SignInCall
    \/ SignInSettles
    \/ SignUpCall
    \/ SignUpSettles
    \/ SignUpInsertSettles
    \/ SignOutCall
    \/ SignOutSettles

Spec == Init /\ [][Next]_vars

\* AuthProvider is mounted again after an unmount.  The new instance starts
\* from its useState initial values and its effect runs with a fresh closure
\* (mounted true, no controller, a new timer): it subscribes and calls
\* initializeAuth.  What the previous instance left pending is inert: its
\* closure's mounted is false and its state updates are dropped.
Remount ==
    /\ lifecycle = "detached"
    /\ user' = NULL
    /\ profile' = NullProfile
    /\ session' = NullSession
    /\ loading' = TRUE
    /\ lifecycle' = "attached"
    /\ initializationTimeout' = "armed"
    /\ timeoutLeft' = StartupTimeoutMs
    /\ initPc' = "getSession"
    /\ fetches' = << >>
    /\ signInPc' = "idle"
    /\ signUpPc' = "idle"
    /\ signOutPc' = "idle"
    /\ sessionEventSinceSignOut' = FALSE

RemountNext ==
    \/ Next
    \/ Remount

RemountSpec == Init /\ [][RemountNext]_vars

\* The effect runs after the first render and timers fire; nothing is
\* assumed of the backend.
FairSpec ==
    Spec /\ WF_vars(Attach) /\ WF_vars(Tick) /\ WF_vars(InitializationTimeoutFires)

\* const isAdmin = profile?.role === 'admin'
isAdmin == profile.role = "admin"

\* const isStudent = profile?.role === 'student'
isStudent == profile.role = "student"

----------------------------------------------------------------------------
(* The alternate AuthProvider (src/unnamed/part_001).  It has the same     *)
(* four values plus the state `initializing`, no timer and no abort        *)
(* controller.  Its behaviours are those of AltSpec, over the same         *)
(* variables; the startup timer's variables keep their initial values.     *)

\* const [initializing, setInitializing] = useState(true): set to false only
\* by getInitialSession's finally block, when it runs mounted.
initializing == initPc # "done"

\* The value of `initializing` that the effect's callbacks read.  The effect
\* has no dependencies, so getInitialSession, the onAuthStateChange callback
\* and the fetchProfile they call are those of the first render, where
\* initializing is its initial value.
initializingInEffect == TRUE

altUnused == <<initializationTimeout, timeoutLeft, sessionEventSinceSignOut>>

\* The effect body: getInitialSession up to its await, then subscribe.
AltAttach ==
    /\ lifecycle = "rendered"
    /\ lifecycle' = "attached"
    /\ initPc' = "getSession"
    /\ UNCHANGED <<user, profile, session, loading, fetches, signInPc,
                   signUpPc, signOutPc>>
    /\ UNCHANGED altUnused

\* fetchProfile up to its await: the query is issued without a signal.
AltStartFetch(fs, uid, by) ==
    Append(fs, [uid |-> uid, by |-> by, aborted |-> FALSE, status |-> "pending"])

\* getInitialSession from the settlement of getSession() on, up to its await
\* of fetchProfile or through its finally block.
GetInitialSessionResolve(res) ==
    /\ initPc = "getSession"
    /\ IF ~mounted
       THEN /\ initPc' = "unmounted"
            /\ UNCHANGED <<user, profile, session, loading, fetches>>
       ELSE IF res.kind \in {"error", "throw"}
       THEN /\ session' = NullSession
            /\ user' = NULL
            /\ profile' = NullProfile
            /\ loading' = FALSE
            /\ initPc' = "done"
            /\ UNCHANGED fetches
       ELSE /\ session' = res.session
            /\ user' = SessionUser(res.session)
            /\ IF SessionUser(res.session) # NULL
               THEN /\ Len(fetches) < MaxFetches
                    /\ fetches' = AltStartFetch(fetches, SessionUser(res.session), "init")
                    /\ initPc' = "fetchProfile"
                    /\ UNCHANGED <<profile, loading>>
               ELSE /\ loading' = FALSE
                    /\ initPc' = "done"
                    /\ UNCHANGED <<profile, fetches>>
    /\ UNCHANGED <<lifecycle, signInPc, signUpPc, signOutPc>>
    /\ UNCHANGED altUnused

\* The onAuthStateChange callback, with fetchProfile up to its await.  The
\* fetch is marked "signIn" when the event arrives while signIn awaits
\* signInWithPassword(), which is when the backend announces that sign-in.
OnAuthStateChange(newSession) ==
    /\ mounted
    /\ session' = newSession
    /\ user' = SessionUser(newSession)
    /\ IF SessionUser(newSession) # NULL
       THEN /\ Len(fetches) < MaxFetches
            /\ fetches' = AltStartFetch(fetches, SessionUser(newSession),
                                       IF signInPc = "await" THEN "signIn"
                                       ELSE "push")
            /\ UNCHANGED <<profile, loading>>
       ELSE /\ profile' = NullProfile
            /\ loading' = IF ~initializingInEffect THEN FALSE ELSE loading
            /\ UNCHANGED fetches
    /\ UNCHANGED <<lifecycle, initPc, signInPc, signUpPc, signOutPc>>
    /\ UNCHANGED altUnused

\* fetchProfile from the settlement of fetch i on (try, catch, finally); for
\* the fetch getInitialSession awaits, getInitialSession's finally follows.
\* A state update of the unmounted component is dropped.
FetchProfileSettle(i, out, role) ==
    /\ i \in DOMAIN fetches
    /\ fetches[i].status = "pending"
    /\ out \in FetchOutcomes \ {"abort"}
    /\ fetches' = [fetches EXCEPT ![i].status =
                       IF out = "data" THEN "data" ELSE "failed"]
    /\ profile' = IF ~mounted THEN profile
                  ELSE IF out = "data" THEN ProfileRow(fetches[i].uid, role)
                  ELSE NullProfile
    /\ IF fetches[i].by = "init"
       THEN /\ initPc' = IF mounted THEN "done" ELSE "unmounted"
            /\ loading' = IF mounted THEN FALSE ELSE loading
       ELSE /\ loading' = IF mounted /\ ~initializingInEffect THEN FALSE ELSE loading
            /\ UNCHANGED initPc
    /\ UNCHANGED <<user, session, lifecycle, signInPc, signUpPc, signOutPc>>
    /\ UNCHANGED altUnused

\* The effect's cleanup: mounted = false; subscription.unsubscribe().
AltDetach ==
    /\ lifecycle = "attached"
    /\ lifecycle' = "detached"
    /\ UNCHANGED <<user, profile, session, loading, initPc, fetches, signInPc,
                   signUpPc, signOutPc>>
    /\ UNCHANGED altUnused

\* signIn up to await supabase.auth.signOut().
AltSignInCall ==
    /\ mounted
    /\ signInPc = "idle"
    /\ signInPc' = "signOut"
    /\ loading' = TRUE
    /\ UNCHANGED <<user, profile, session, lifecycle, initPc, fetches,
                   signUpPc, signOutPc>>
    /\ UNCHANGED altUnused

\* signIn from the settlement of signOut() on: the 100 ms delay starts, or
\* the catch block runs.
AltSignInSignedOut(out) ==
    /\ signInPc = "signOut"
    /\ out \in {"ok", "throw"}
    /\ IF out = "ok"
       THEN /\ signInPc' = "delay"
            /\ UNCHANGED loading
       ELSE /\ signInPc' = "idle"
            /\ loading' = IF mounted THEN FALSE ELSE loading
    /\ UNCHANGED <<user, profile, session, lifecycle, initPc, fetches,
                   signUpPc, signOutPc>>
    /\ UNCHANGED altUnused

\* signIn after its delay, up to await signInWithPassword().
AltSignInDelayElapsed ==
    /\ signInPc = "delay"
    /\ signInPc' = "await"
    /\ UNCHANGED <<user, profile, session, loading, lifecycle, initPc, fetches,
                   signUpPc, signOutPc>>
    /\ UNCHANGED altUnused

\* signIn from the settlement of signInWithPassword() to its return.
\* out: "ok" (user and session), "nouser", "error", "throw".
AltSignInReturn(out) ==
    /\ signInPc = "await"
    /\ out \in {"ok", "nouser", "error", "throw"}
    /\ signInPc' = "idle"
    /\ loading' = IF out # "ok" /\ mounted THEN FALSE ELSE loading
    /\ UNCHANGED <<user, profile, session, lifecycle, initPc, fetches,
                   signUpPc, signOutPc>>
    /\ UNCHANGED altUnused

\* signUp up to await supabase.auth.signUp().
AltSignUpCall ==
    /\ mounted
    /\ signUpPc = "idle"
    /\ signUpPc' = "await"
    /\ loading' = TRUE
    /\ UNCHANGED <<user, profile, session, lifecycle, initPc, fetches,
                   signInPc, signOutPc>>
    /\ UNCHANGED altUnused

\* signUp from the settlement of supabase.auth.signUp() on: it returns, or
\* awaits the insert of the profile row.
AltSignUpResolve(out) ==
    /\ signUpPc = "await"
    /\ out \in {"user", "nouser", "error", "throw"}
    /\ IF out = "user"
       THEN /\ signUpPc' = "insert"
            /\ UNCHANGED loading
       ELSE /\ signUpPc' = "idle"
            /\ loading' = IF mounted THEN FALSE ELSE loading
    /\ UNCHANGED <<user, profile, session, lifecycle, initPc, fetches,
                   signInPc, signOutPc>>
    /\ UNCHANGED altUnused

\* signUp from the settlement of the insert to its return.
AltSignUpInsertResolve(out) ==
    /\ signUpPc = "insert"
    /\ out \in {"ok", "error", "throw"}
    /\ signUpPc' = "idle"
    /\ loading' = IF mounted THEN FALSE ELSE loading
    /\ UNCHANGED <<user, profile, session, lifecycle, initPc, fetches,
                   signInPc, signOutPc>>
    /\ UNCHANGED altUnused

\* signOut up to await supabase.auth.signOut().
AltSignOutCall ==
    /\ mounted
    /\ signOutPc = "idle"
    /\ signOutPc' = "await"
    /\ loading' = TRUE
    /\ user' = NULL
    /\ profile' = NullProfile
    /\ session' = NullSession
    /\ UNCHANGED <<lifecycle, initPc, fetches, signInPc, signUpPc>>
    /\ UNCHANGED altUnused

\* signOut from the settlement of supabase.auth.signOut() on: the 100 ms
\* delay starts, or the catch and finally blocks run.
AltSignOutSettled(out) ==
    /\ signOutPc = "await"
    /\ out \in {"ok", "error", "throw"}
    /\ IF out = "throw"
       THEN /\ signOutPc' = "idle"
            /\ loading' = IF mounted THEN FALSE ELSE loading
       ELSE /\ signOutPc' = "delay"
            /\ UNCHANGED loading
    /\ UNCHANGED <<user, profile, session, lifecycle, initPc, fetches,
                   signInPc, signUpPc>>
    /\ UNCHANGED altUnused

\* signOut after its delay: the finally block.
AltSignOutDelayElapsed ==
    /\ signOutPc = "delay"
    /\ signOutPc' = "idle"
    /\ loading' = IF mounted THEN FALSE ELSE loading
    /\ UNCHANGED <<user, profile, session, lifecycle, initPc, fetches,
                   signInPc, signUpPc>>
    /\ UNCHANGED altUnused

AltInitResolve == \E res \in GetSessionOutcomes : GetInitialSessionResolve(res)
AltPushEvent == \E s \in Sessions : OnAuthStateChange(s)
AltFetchSettles ==
    \E i \in 1..MaxFetches, out \in FetchOutcomes, role \in Roles :
        FetchProfileSettle(i, out, role)
AltSignInSignOutSettles == \E out \in {"ok", "throw"} : AltSignInSignedOut(out)
AltSignInSettles == \E out \in {"ok", "nouser", "error", "throw"} : AltSignInReturn(out)
AltSignUpSettles == \E out \in {"user", "nouser", "error", "throw"} : AltSignUpResolve(out)
AltSignUpInsertSettles == \E out \in {"ok", "error", "throw"} : AltSignUpInsertResolve(out)
AltSignOutSettles == \E out \in {"ok", "error", "throw"} : AltSignOutSettled(out)

AltNext ==
    \/ AltAttach
    \/ AltInitResolve
    \/ AltPushEvent
    \/ AltFetchSettles
    \/ AltDetach
    \/ AltSignInCall
    \/ AltSignInSignOutSettles
    \/ AltSignInDelayElapsed
    \/ AltSignInSettles
    \/ AltSignUpCall
    \/ AltSignUpSettles
    \/ AltSignUpInsertSettles
    \/ AltSignOutCall
    \/ AltSignOutSettles
    \/ AltSignOutDelayElapsed

AltSpec == Init /\ [][AltNext]_vars

----------------------------------------------------------------------------
(* ProtectedRoute (src/unnamed/part_000): what it renders, as a function   *)
(* of the context values it reads, its timeoutReached state and its props. *)

\* Mutant: the guard tests the user only.
ProtectedRoute_UserOnly(u, p, l, timeoutReached, requireAdmin, requireStudent) ==
    IF l /\ ~timeoutReached THEN "loading"
    ELSE IF timeoutReached /\ l THEN "/login"
    ELSE IF u = NULL THEN "/login"
    ELSE IF requireAdmin /\ p.role # "admin" THEN "/dashboard"
    ELSE IF requireStudent /\ p.role # "student" THEN "/admin"
    ELSE "children"

ProtectedRoute(u, p, l, timeoutReached, requireAdmin, requireStudent) ==
    IF l /\ ~timeoutReached THEN "loading"
    ELSE IF timeoutReached /\ l THEN "/login"
    ELSE IF u = NULL \/ p = NullProfile THEN "/login"
    ELSE IF requireAdmin /\ p.role # "admin" THEN "/dashboard"
    ELSE IF requireStudent /\ p.role # "student" THEN "/admin"
    ELSE "children"

----------------------------------------------------------------------------
(* AppContent (src/src/App.tsx): the loading screen it puts around the     *)
(* routes, and what the user sees on a guarded route.                      *)

GuardTimeoutMs == 3000

AppContent(l) == IF l THEN "loading" ELSE "routes"

\* The guarded routes are rendered, and ProtectedRoute mounted, only when
\* AppContent does not return its loading screen.
AppView(timeoutReached, requireAdmin, requireStudent) ==
    IF AppContent(loading) = "loading"
    THEN "loading"
    ELSE ProtectedRoute(user, profile, loading, timeoutReached,
                        requireAdmin, requireStudent)

\* Time since the provider's effect ran, known while its timer is pending.
MsSinceAttach == StartupTimeoutMs - timeoutLeft

----------------------------------------------------------------------------
(* Properties *)

\* Fetch i is outstanding.
Pending(i) == i \in DOMAIN fetches /\ fetches[i].status = "pending"

\* This step is the settlement of fetch i.
Settles(i) == Pending(i) /\ fetches'[i].status # "pending"

\* C1 (no torn profile): in every state a consumer can observe, a non-null
\* profile belongs to the current user: user is non-null and profile.id is
\* user.id.
C1_NoTornProfile ==
    (mounted /\ profile # NullProfile) => (user # NULL /\ profile.id = user)

\* C2 (stale-fetch discard): the settlement of a fetch that is no longer the
\* one issued last (a later session event has started a newer fetch) changes
\* none of user, profile, session, loading.
C2_StaleFetchDiscard ==
    [][\A i \in DOMAIN fetches :
          (i < Len(fetches) /\ Settles(i)) => authState' = authState]_vars

\* C3 (sign-out is final for pending work): after signOut has cleared the
\* state, and for as long as the backend sign-out call takes, the settlement
\* of a fetch that was in flight when signOut was called leaves user and
\* profile null.  (While signOut awaits and no session event was handled
\* since its call, every pending fetch was in flight at the call.)
C3_SignOutFinal ==
    [][\A i \in DOMAIN fetches :
          (/\ signOutPc = "await"
           /\ ~sessionEventSinceSignOut
           /\ Settles(i))
          => (user' = NULL /\ profile' = NullProfile)]_vars

\* C4 (startup loading liveness): while the provider is attached and
\* getSession() has not settled, the startup timer has fired or is armed with
\* at most the startup timeout left, whatever else has happened; when it
\* fires, loading is false, and user is null unless a push event has
\* delivered a session (every fetch issued before getSession() settles comes
\* from a push event).
C4_StartupLoadingLiveness ==
    [][/\ (mounted' /\ initPc' = "getSession")
          => \/ initializationTimeout' = "fired"
             \/ /\ initializationTimeout' = "armed"
                /\ timeoutLeft' <= StartupTimeoutMs
       /\ (initializationTimeout = "armed" /\ initializationTimeout' = "fired")
          => /\ timeoutLeft = 0
             /\ ~loading'
             /\ (fetches = << >>) => user' = NULL]_vars

C4_Witness ==
    /\ mounted
    /\ initPc = "getSession"
    /\ initializationTimeout = "fired"
    /\ signInPc = "await"
    /\ ~loading
    /\ user = NULL

\* C5 (general loading liveness): whenever loading is true in an attached
\* provider it eventually becomes false, given only that timers fire.
C5_LoadingEventuallyFalse ==
    (mounted /\ loading) ~> (~loading \/ ~mounted)

\* C6 (idempotent no-op refresh): a session event for the user already held,
\* arriving after that user's profile fetch has settled, leaves profile and
\* loading as they are and neither cancels a fetch nor starts one.
C6_NoOpRefresh ==
    [][\A u \in Users :
          (/\ user = u
           /\ session = SessionOf(u)
           /\ fetches # << >>
           /\ fetches[Len(fetches)].uid = u
           /\ fetches[Len(fetches)].status # "pending"
           /\ HandleAuthStateChange(SessionOf(u)))
          => (profile' = profile /\ loading' = loading /\ fetches' = fetches)]_vars

\* C7 (invariant I1): user is non-null exactly when session is non-null.
C7_UserIffSession == (user # NULL) <=> (session # NullSession)

C7_Witness ==
    /\ user = "U2"
    /\ session = SessionOf("U2")
    /\ signOutPc = "idle"
    /\ Len(fetches) = 2
    /\ fetches[1].uid = "U1"

\* C8 (invariant I3): loading is true only while the initial session query
\* is outstanding or the profile fetch of the session currently held is
\* outstanding.
C8_LoadingOnlyWhileOutstanding ==
    loading =>
        \/ initPc # "done"
        \/ /\ Pending(Len(fetches))
           /\ fetches[Len(fetches)].uid = user

\* C9 (account switch converges): a push event for U1 followed, before U1's
\* fetch settles, by a push event for U2: at the step that settles the second
\* of the two fetches, U2's fetch having returned a row, the state has
\* user = U2, profile.id = U2 and loading = false.
C9_AccountSwitchConverges ==
    [][LET n == Len(fetches) IN
          (/\ mounted
           /\ n >= 2
           /\ fetches[n - 1].by = "push"
           /\ fetches[n].by = "push"
           /\ fetches[n - 1].uid # fetches[n].uid
           /\ user = fetches[n].uid
           /\ Settles(n - 1) \/ Settles(n)
           /\ fetches'[n - 1].status # "pending"
           /\ fetches'[n].status = "data")
          => (/\ user' = fetches[n].uid
              /\ profile'.id = fetches[n].uid
              /\ ~loading')]_vars

\* C10 (signOut clears local state): signOut has set user, profile and
\* session to null when it awaits the backend call, and when it returns,
\* whatever the backend answered and no session event having been handled in
\* between, user, profile and session are null and loading is false.
C10_SignOutClears ==
    [][/\ (signOutPc = "idle" /\ signOutPc' = "await")
          => (user' = NULL /\ profile' = NullProfile /\ session' = NullSession)
       /\ (/\ mounted
           /\ signOutPc = "await"
           /\ signOutPc' = "idle"
           /\ ~sessionEventSinceSignOut)
          => (/\ user' = NULL
              /\ profile' = NullProfile
              /\ session' = NullSession
              /\ ~loading')]_vars

\* C11 (no session collapses to Unauthenticated): when getSession() settles
\* with no session (null, or a session without a user), with an error result
\* or by throwing, in an attached provider to which no push event has
\* delivered a session, initializeAuth completes and the state is user,
\* profile, session null and loading false.
C11_NoSessionCollapses ==
    [][\A res \in GetSessionOutcomes :
          (/\ mounted
           /\ fetches = << >>
           /\ res.kind # "session" \/ SessionUser(res.session) = NULL
           /\ InitializeAuthResolve(res))
          => (/\ initPc' = "done"
              /\ user' = NULL
              /\ profile' = NullProfile
              /\ session' = NullSession
              /\ ~loading')]_vars

C11_Witness ==
    /\ mounted
    /\ initPc = "done"
    /\ initializationTimeout = "cleared"
    /\ fetches = << >>
    /\ signInPc = "idle" /\ signUpPc = "idle" /\ signOutPc = "idle"
    /\ user = NULL
    /\ ~loading

\* C12 (successful profile load): a push event has delivered a session for
\* a user and started that user's fetch; no later session event or sign-out
\* has intervened (the fetch is the one issued last and its user is still
\* held).  When the fetch returns a row with role r, the state has that user,
\* the row as profile, loading false, isStudent = (r = student) and
\* isAdmin = (r = admin), never both.
C12_SuccessfulProfileLoad ==
    [][\A r \in Roles :
          LET n == Len(fetches) IN
          (/\ mounted
           /\ n >= 1
           /\ fetches[n].by = "push"
           /\ user = fetches[n].uid
           /\ session = SessionOf(fetches[n].uid)
           /\ FetchUserProfileSettle(n, "data", r))
          => (/\ user' = fetches[n].uid
              /\ profile' = ProfileRow(fetches[n].uid, r)
              /\ ~loading'
              /\ isStudent' <=> (r = "student")
              /\ isAdmin' <=> (r = "admin")
              /\ ~(isAdmin' /\ isStudent'))]_vars

C12_Witness ==
    /\ mounted
    /\ Len(fetches) = 1
    /\ fetches[1] = [uid |-> "U1", by |-> "push", aborted |-> FALSE, status |-> "data"]
    /\ user = "U1"
    /\ profile = ProfileRow("U1", "student")
    /\ isStudent /\ ~isAdmin
    /\ ~loading

\* C13 (profile fetch failure is recovered): when a fetch for the user
\* currently held settles with not-found, another error result or a thrown
\* exception other than AbortError, profile is null and loading false, user
\* and session are kept, and no new fetch is issued.
C13_FetchFailureRecovered ==
    [][\A i \in DOMAIN fetches, out \in {"notfound", "error", "throw"}, r \in Roles :
          (/\ mounted
           /\ user = fetches[i].uid
           /\ FetchUserProfileSettle(i, out, r))
          => (/\ user' = user
              /\ session' = session
              /\ profile' = NullProfile
              /\ ~loading'
              /\ Len(fetches') = Len(fetches)
              /\ \A j \in DOMAIN fetches : Pending(j)' => Pending(j))]_vars

C13_Witness ==
    /\ mounted
    /\ Len(fetches) = 2
    /\ fetches[1].status = "data"
    /\ fetches[2].status = "failed"
    /\ fetches[2].uid = "U1"
    /\ ~fetches[2].aborted
    /\ user = "U1"
    /\ session = SessionOf("U1")
    /\ profile = NullProfile
    /\ ~loading

\* C14 (action errors are returned and leave state intact): signIn and
\* signUp never write user, profile or session; when the backend sign-in
\* fails (error result, no user or session, exception) signIn returns a
\* non-null error and loading is false, and so does signUp when the backend
\* sign-up or the profile insert fails.
C14_ActionErrorsReturned ==
    [][/\ (SignInCall \/ SignUpCall \/ SignInSettles \/ SignUpSettles
              \/ SignUpInsertSettles)
          => <<user, profile, session>>' = <<user, profile, session>>
       /\ \A out \in {"error", "nouser", "throw"} :
             (mounted /\ SignInReturn(out))
             => (SignInResult(out) = "error" /\ ~loading')
       /\ \A out \in {"error", "throw"} :
             (mounted /\ SignUpResolve(out))
             => (SignUpResult(out) = "error" /\ ~loading')
       /\ \A out \in {"error", "throw"} :
             (mounted /\ SignUpInsertResolve(out))
             => (SignUpInsertResult(out) = "error" /\ ~loading')]_vars

\* The state a failed signIn returns to while signUp still awaits its
\* insert: the session held is kept and loading is false.
C14_Witness ==
    /\ mounted
    /\ user = "U1"
    /\ session = SessionOf("U1")
    /\ signInPc = "idle"
    /\ signUpPc = "awaitInsert"
    /\ signOutPc = "idle"
    /\ ~loading

\* C15 (no work leaks after detach): once the cleanup has run, the startup
\* timer is not armed and every fetch issued is aborted; no fetch is issued
\* any more; and a step that is not the return of signIn, signUp or signOut
\* (the settlement of getSession() or of a fetch, the timer, a push event)
\* changes none of user, profile, session, loading.
C15_NoWorkLeaksAfterDetach ==
    [][/\ lifecycle' = "detached"
          => /\ initializationTimeout' # "armed"
             /\ \A i \in DOMAIN fetches' : fetches'[i].aborted
       /\ lifecycle = "detached"
          => /\ Len(fetches') = Len(fetches)
             /\ <<signInPc, signUpPc, signOutPc>>' = <<signInPc, signUpPc, signOutPc>>
                => authState' = authState]_vars

\* After the cleanup getSession() has settled and the only fetch has returned
\* a row: the profile was not stored and loading was not cleared.
C15_Witness ==
    /\ lifecycle = "detached"
    /\ initPc = "done"
    /\ initializationTimeout = "cleared"
    /\ Len(fetches) = 1
    /\ fetches[1].status = "data"
    /\ fetches[1].by = "push"
    /\ user = fetches[1].uid
    /\ profile = NullProfile
    /\ loading
    /\ signInPc = "idle" /\ signUpPc = "idle" /\ signOutPc = "idle"

C17_BoundedWait ==
    ( /\ mounted
      /\ initializationTimeout = "armed"
      /\ initPc = "getSession"
      /\ Len(fetches) = 0
      /\ signInPc = "idle" /\ signUpPc = "idle" /\ signOutPc = "idle"
      /\ MsSinceAttach > GuardTimeoutMs )
    => \A tr \in BOOLEAN, ra \in BOOLEAN, rs \in BOOLEAN :
           AppView(tr, ra, rs) # "loading"

\* C18 (identity change resets profile and loading): a push event whose
\* session carries a user other than the one held clears profile and sets
\* loading true in the same update, with that user's profile fetch pending;
\* an event without a user leaves loading false.
C18_IdentityChangeResets ==
    [][\A s \in Sessions :
           HandleAuthStateChange(s)
           => IF SessionUser(s) = NULL
              THEN ~loading'
              ELSE SessionUser(s) # user
                   => /\ profile' = NullProfile
                      /\ loading'
                      /\ Pending(profileFetchController)']_vars

\* C19 (at most one live profile fetch): in every reachable state every
\* fetch but the one issued last has had its controller aborted, so at most
\* one outstanding fetch has a controller that is not aborted.
C19_AtMostOneLiveFetch ==
    /\ \A i \in DOMAIN fetches : i < profileFetchController => fetches[i].aborted
    /\ \A i \in DOMAIN fetches, j \in DOMAIN fetches :
           ( /\ Pending(i) /\ ~fetches[i].aborted
             /\ Pending(j) /\ ~fetches[j].aborted ) => i = j

C19_Witness ==
    /\ mounted
    /\ Len(fetches) = 2
    /\ fetches[1].by = "push" /\ Pending(1) /\ fetches[1].aborted
    /\ fetches[2].by = "init" /\ Pending(2) /\ ~fetches[2].aborted

\* C20 (startup timer is cleared on resolution): once the initial session
\* query has resolved, returned an error or thrown, the startup timer is no
\* longer pending and never fires: no later step is its callback, so it never
\* forces loading to false after that point.
C20_StartupTimerCleared ==
    [][/\ initPc' = "done" => initializationTimeout' # "armed"
       /\ initPc = "done"
          => /\ ~InitializationTimeoutFires
             /\ initializationTimeout' = initializationTimeout]_vars

C20_Witness ==
    /\ mounted
    /\ initPc = "done"
    /\ initializationTimeout = "cleared"
    /\ timeoutLeft = 0
    /\ loading
    /\ Len(fetches) = 1
    /\ fetches[1].by = "init"
    /\ Pending(1)

\* C21 (initialization runs once): across attach, detach and re-attach the
\* initial session query and the subscription are performed at most once.  A
\* detached provider has performed both, so no step from a detached state
\* runs the effect body again, subscribing and issuing the session query.
C21_InitializationRunsOnce ==
    [][lifecycle = "detached"
       => ~(lifecycle' = "attached" /\ initPc' = "getSession")]_vars

\* C22 (alternate AuthProvider): after initialization has completed and a
\* signIn has returned, when the profile fetch started by the push event of
\* that signIn for the held user settles, with no other fetch or context
\* action outstanding, loading is false and user is that user.
C22_AltSignInLoadingCleared ==
    [][\A i \in DOMAIN fetches :
           ( /\ mounted
             /\ initPc = "done"
             /\ signInPc = "idle" /\ signUpPc = "idle" /\ signOutPc = "idle"
             /\ i = Len(fetches)
             /\ fetches[i].by = "signIn"
             /\ fetches[i].uid = user
             /\ \A j \in DOMAIN fetches : Pending(j) <=> j = i
             /\ Settles(i) )
           => /\ ~loading'
              /\ user' = fetches[i].uid]_vars

====
